---- MODULE Spec2Model ----
(***************************************************************************)
(* ChatAIBadgr: the AI Badgr chat-model adapter over the OpenAI-compatible *)
(* client (libs/langchain-community/src/chat_models/aibadgr.ts) and the    *)
(* static model profile table (libs/providers/langchain-aibadgr/src/       *)
(* profiles.ts).                                                           *)
(*                                                                         *)
(* A JavaScript object is a function whose DOMAIN is the object's own      *)
(* keys; a JavaScript value is a tagged record [t, v], so that values of   *)
(* different JavaScript types can be compared.                             *)
(***************************************************************************)
EXTENDS Integers, Sequences, FiniteSets, TLC

VARIABLES
    env,         \* process environment: variable name -> value
    profiles,    \* the module-level PROFILES table
    pc,          \* "new" | "constructed" | "failed" : position of the constructor call
    fields,      \* the argument the constructor was called with
    instance,    \* the object handed to the wrapped client's constructor (super(...))
    thrown,      \* message of the Error the constructor threw, or NoError
    serialized,  \* result of the last toJSON() call, or NotSerialized
    profile,     \* result of the last read of model.profile, or NotRead
    heap,        \* request objects as their callers hold them: id -> object
    calls        \* completionWithRetry invocations, in call order

vars == <<env, profiles, pc, fields, instance, thrown, serialized, profile, heap, calls>>

----------------------------------------------------------------------------
(* JavaScript values and objects *)

Undefined == [t |-> "undefined", v |-> ""]
Str(s) == [t |-> "string", v |-> s]
Bool(s) == [t |-> "boolean", v |-> s]
\* an object literal {baseURL: url}
ClientOptions(url) == [t |-> "object", v |-> url]
\* the marker generic serialization writes in place of a secret
SecretMarker(id) == [t |-> "secret", v |-> id]

EmptyObject == [k \in {} |-> Undefined]

\* o[k], o?.[k]
Get(o, k) == IF k \in DOMAIN o THEN o[k] ELSE Undefined

\* {...a, ...b}
Spread(a, b) == [k \in DOMAIN a \cup DOMAIN b |-> IF k \in DOMAIN b THEN b[k] ELSE a[k]]

\* delete o[k]
Delete(o, k) == [x \in DOMAIN o \ {k} |-> o[x]]

\* JavaScript truthiness of undefined and of strings
Truthy(x) == x # Undefined /\ x # Str("")

\* a || b
Or(a, b) == IF Truthy(a) THEN a ELSE b

\* an object literal whose undefined-valued properties are left out
ObjectOf(f) == [k \in {x \in DOMAIN f : f[x] # Undefined} |-> f[k]]

----------------------------------------------------------------------------
(* ChatAIBadgr construction *)

NoError == "<no error>"

\* aibadgr.ts:327
KeyNotFoundMessage ==
    "AI Badgr API key not found. Please set the AIBADGR_API_KEY environment variable or provide the key into \"aibadgrApiKey\""

\* aibadgr.ts:336
DefaultBaseURL == "https://aibadgr.com/api/v1"

\* aibadgr.ts:333
DefaultModel == "gpt-4"

getEnvironmentVariable(name) == Get(env, name)

\* ResolveApiKey with the alias field consulted before the explicit field
ResolveApiKey_AliasFirst(f) ==
    Or(Or(Get(f, "aibadgrApiKey"), Get(f, "apiKey")),
       getEnvironmentVariable("AIBADGR_API_KEY"))

\* aibadgr.ts:320-323
ResolveApiKey(f) ==
    Or(Or(Get(f, "apiKey"), Get(f, "aibadgrApiKey")),
       getEnvironmentVariable("AIBADGR_API_KEY"))

\* aibadgr.ts:331-338, the argument of super(...)
SuperArgs(f) ==
    Spread(f, [model |-> Or(Get(f, "model"), Str(DefaultModel)),
               apiKey |-> ResolveApiKey(f),
               configuration |-> ClientOptions(DefaultBaseURL)])

\* aibadgr.ts:302-307
lc_secrets == [aibadgrApiKey |-> "AIBADGR_API_KEY", apiKey |-> "AIBADGR_API_KEY"]

\* aibadgr.ts:309
lc_serializable == TRUE

----------------------------------------------------------------------------
(* Serialization *)

NotSerialized == [type |-> "none"]

\* The base class emits the apiKey constructor field under the key that
\* toJSON deletes (aibadgr.ts:355).
lc_aliases == [apiKey |-> "openai_api_key"]

\* Base serialization: constructor-field name -> serialized (snake case) name
keyToJson(k) ==
    IF k \in DOMAIN lc_aliases THEN lc_aliases[k]
    ELSE IF k = "aibadgrApiKey" THEN "aibadgr_api_key"
    ELSE k

\* Base serialization (super.toJSON()): the constructor fields under their
\* serialized names, each declared secret replaced by a marker.
SerializableToJSON(kwargs) ==
    IF ~lc_serializable THEN [type |-> "not_implemented"]
    ELSE [type |-> "constructor",
          kwargs |-> [j \in {keyToJson(k) : k \in DOMAIN kwargs} |->
                        LET k == CHOOSE x \in DOMAIN kwargs : keyToJson(x) = j
                        IN  IF k \in DOMAIN lc_secrets
                            THEN SecretMarker(lc_secrets[k])
                            ELSE kwargs[k]]]

\* toJSON that forgets to delete the configuration block
toJSON_KeepsConfiguration(kwargs) ==
    LET result == SerializableToJSON(kwargs)
    IN  IF "kwargs" \in DOMAIN result
        THEN [result EXCEPT !.kwargs = Delete(@, "openai_api_key")]
        ELSE result

\* aibadgr.ts:347-360
toJSON(kwargs) ==
    LET result == SerializableToJSON(kwargs)
    IN  IF "kwargs" \in DOMAIN result
        THEN [result EXCEPT !.kwargs = Delete(Delete(@, "openai_api_key"), "configuration")]
        ELSE result

----------------------------------------------------------------------------
(* Model profiles *)

\* profiles.ts:4-15
BASE_PROFILE ==
    [imageInputs |-> FALSE, audioInputs |-> FALSE, pdfInputs |-> FALSE,
     videoInputs |-> FALSE, reasoningOutput |-> FALSE, imageOutputs |-> FALSE,
     audioOutputs |-> FALSE, videoOutputs |-> FALSE, toolCalling |-> TRUE,
     structuredOutput |-> FALSE]

\* createProfile with the two token limits swapped
createProfile_SwappedLimits(maxInputTokens, maxOutputTokens) ==
    Spread(BASE_PROFILE,
           [maxInputTokens |-> maxOutputTokens, maxOutputTokens |-> maxInputTokens])

\* profiles.ts:18-25
createProfile(maxInputTokens, maxOutputTokens) ==
    Spread(BASE_PROFILE,
           [maxInputTokens |-> maxInputTokens, maxOutputTokens |-> maxOutputTokens])

\* PROFILES with one power-user name mapped to the wrong tier
PROFILES_WrongTier ==
    [basic |-> createProfile(8192, 4096),
     normal |-> createProfile(16384, 8192),
     premium |-> createProfile(32768, 16384)]
    @@ ("phi-3-mini" :> createProfile(16384, 8192))
    @@ ("mistral-7b" :> createProfile(16384, 8192))
    @@ ("llama3-8b-instruct" :> createProfile(32768, 16384))

\* profiles.ts:27-37
PROFILES ==
    [basic |-> createProfile(8192, 4096),
     normal |-> createProfile(16384, 8192),
     premium |-> createProfile(32768, 16384)]
    @@ ("phi-3-mini" :> createProfile(8192, 4096))
    @@ ("mistral-7b" :> createProfile(16384, 8192))
    @@ ("llama3-8b-instruct" :> createProfile(32768, 16384))

NotRead == [read |-> FALSE, value |-> EmptyObject]

\* model.profile: lookup of the configured model name by exact key
ProfileOf(modelName) ==
    IF modelName \in DOMAIN profiles THEN profiles[modelName] ELSE EmptyObject

----------------------------------------------------------------------------
(* Request sanitization *)

\* Sanitize that leaves the legacy functions field in place
Sanitize_KeepsFunctions(request) ==
    Delete(Delete(Delete(request, "frequency_penalty"), "presence_penalty"), "logit_bias")

\* Sanitize that also strips the modern tool-calling field
Sanitize_DropsTools(request) ==
    Delete(Delete(Delete(Delete(Delete(request, "frequency_penalty"), "presence_penalty"),
                         "logit_bias"), "functions"), "tools")

\* aibadgr.ts:381-384
Sanitize(request) ==
    Delete(Delete(Delete(Delete(request, "frequency_penalty"), "presence_penalty"),
                  "logit_bias"), "functions")

Pending == [kind |-> "pending", v |-> ""]

\* What the wrapped client's completionWithRetry may settle with
WrappedOutcomes ==
    {[kind |-> "fulfilled", v |-> "response"], [kind |-> "rejected", v |-> "HTTP 429"]}

----------------------------------------------------------------------------
(* Inputs *)

MaxCalls == 2

ApiKeyInputs == {Undefined, Str(""), Str("key-field")}
AliasKeyInputs == {Undefined, Str(""), Str("key-alias")}
EnvKeyInputs == {Undefined, Str(""), Str("key-env")}
ModelNames ==
    {"basic", "normal", "premium", "phi-3-mini", "mistral-7b", "llama3-8b-instruct",
     "gpt-4", "unknown-model"}
ModelInputs == {Undefined, Str("")} \cup {Str(m) : m \in ModelNames}
ConfigurationInputs == {Undefined, ClientOptions("https://proxy.example/v1")}
EnvBaseURLInputs == {Undefined, Str("https://env.example/v1")}
TemperatureInputs == {Undefined, [t |-> "number", v |-> "0.9"]}

EnvInputs ==
    {ObjectOf([AIBADGR_API_KEY |-> k, AIBADGR_BASE_URL |-> u]) :
        k \in EnvKeyInputs, u \in EnvBaseURLInputs}

FieldsInputs ==
    {ObjectOf([apiKey |-> a, aibadgrApiKey |-> b, model |-> m, configuration |-> c,
               temperature |-> t]) :
        a \in ApiKeyInputs, b \in AliasKeyInputs, m \in ModelInputs,
        c \in ConfigurationInputs, t \in TemperatureInputs}

UnsupportedFields == {"frequency_penalty", "presence_penalty", "logit_bias", "functions"}

RequestIds == {1, 2}

\* Which unsupported fields a request carries: none, any one, or all four
UnsupportedSubsets ==
    {{}} \cup {{k} : k \in UnsupportedFields} \cup {UnsupportedFields}

\* A request carrying every field, streaming or not
FullRequest(s) ==
    [messages |-> Str("Hello there!"), model |-> Str("premium"),
     temperature |-> [t |-> "number", v |-> "0.9"],
     tools |-> [t |-> "array", v |-> "GetWeather"],
     stream |-> s,
     frequency_penalty |-> [t |-> "number", v |-> "0.5"],
     presence_penalty |-> [t |-> "number", v |-> "0.1"],
     logit_bias |-> [t |-> "object", v |-> "50256:-100"],
     functions |-> [t |-> "array", v |-> "legacyFn"]]

\* The object o without the keys ks (a literal that leaves them out)
Omit(o, ks) == [x \in DOMAIN o \ ks |-> o[x]]

RequestInputs ==
    {Omit(FullRequest(s), UnsupportedFields \ u) :
        s \in {Bool("true"), Bool("false")}, u \in UnsupportedSubsets}

OptionsInputs == {Undefined, [t |-> "object", v |-> "timeout:1000"]}

----------------------------------------------------------------------------
(* Construction, serialization and profile lookup *)

Init ==
    /\ env \in EnvInputs
    /\ profiles = PROFILES
    /\ pc = "new"
    /\ fields = EmptyObject
    /\ instance = EmptyObject
    /\ thrown = NoError
    /\ serialized = NotSerialized
    /\ profile = NotRead
    /\ heap = [r \in {} |-> EmptyObject]
    /\ calls = <<>>

\* new ChatAIBadgr(f), aibadgr.ts:311-339
Constructor(f) ==
    /\ pc = "new"
    /\ fields' = f
    /\ IF ~Truthy(ResolveApiKey(f))
       THEN /\ thrown' = KeyNotFoundMessage
            /\ pc' = "failed"
            /\ instance' = instance
       ELSE /\ instance' = SuperArgs(f)
            /\ pc' = "constructed"
            /\ thrown' = thrown
    /\ UNCHANGED <<env, profiles, serialized, profile, heap, calls>>

\* model.toJSON()
ToJSON ==
    /\ pc = "constructed"
    /\ serialized' = toJSON(instance)
    /\ UNCHANGED <<env, profiles, pc, fields, instance, thrown, profile, heap, calls>>

\* model.profile
GetProfile ==
    /\ pc = "constructed"
    /\ profile' = [read |-> TRUE, value |-> ProfileOf(instance["model"].v)]
    /\ UNCHANGED <<env, profiles, pc, fields, instance, thrown, serialized, heap, calls>>

Next ==
    \/ \E f \in FieldsInputs : Constructor(f)
    \/ ToJSON
    \/ GetProfile

Spec == Init /\ [][Next]_vars

----------------------------------------------------------------------------
(* Completion calls on one constructed client *)

InitCalls ==
    /\ env = [AIBADGR_API_KEY |-> Str("key-env")]
    /\ profiles = PROFILES
    /\ fields = [model |-> Str("premium")]
    /\ instance = SuperArgs(fields)
    /\ pc = "constructed"
    /\ thrown = NoError
    /\ serialized = NotSerialized
    /\ profile = NotRead
    /\ heap \in [RequestIds -> RequestInputs]
    /\ calls = <<>>

\* model.completionWithRetry(heap[r], options) up to the await inside the
\* wrapped client, aibadgr.ts:372-387
CompletionWithRetry(r, options) ==
    /\ pc = "constructed"
    /\ Len(calls) < MaxCalls
    /\ heap' = [heap EXCEPT ![r] = Sanitize(heap[r])]
    /\ calls' = Append(calls,
                       [request |-> r, options |-> options, entry |-> heap[r],
                        delegated |-> heap'[r], delegatedOptions |-> options,
                        wrapped |-> Pending, result |-> Pending])
    /\ UNCHANGED <<env, profiles, pc, fields, instance, thrown, serialized, profile>>

\* The wrapped client's promise settles; the promise returned at
\* aibadgr.ts:386 settles with it.
Settle(i, outcome) ==
    /\ i \in 1..Len(calls)
    /\ calls[i].wrapped = Pending
    /\ calls' = [calls EXCEPT ![i].wrapped = outcome, ![i].result = outcome]
    /\ UNCHANGED <<env, profiles, pc, fields, instance, thrown, serialized, profile, heap>>

NextCalls ==
    \/ \E r \in RequestIds, o \in OptionsInputs : CompletionWithRetry(r, o)
    \/ \E i \in 1..MaxCalls, outcome \in WrappedOutcomes : Settle(i, outcome)

SpecCalls == InitCalls /\ [][NextCalls]_vars

----------------------------------------------------------------------------
(* Properties *)

NonEmpty(x) == x.t = "string" /\ x.v # ""

\* The three API-key sources, in priority order
KeySources ==
    <<Get(fields, "apiKey"), Get(fields, "aibadgrApiKey"), Get(env, "AIBADGR_API_KEY")>>

RECURSIVE FirstNonEmpty(_)
FirstNonEmpty(s) ==
    IF s = <<>> THEN Undefined
    ELSE IF NonEmpty(Head(s)) THEN Head(s)
    ELSE FirstNonEmpty(Tail(s))

\* C1: whenever at least one of apiKey, aibadgrApiKey and AIBADGR_API_KEY is
\* non-empty, construction succeeds and the key handed to the wrapped client
\* is the first non-empty one in that order (an empty string falls through).
C1_ApiKeyPriority ==
    (pc # "new" /\ \E i \in 1..3 : NonEmpty(KeySources[i])) =>
        /\ pc = "constructed"
        /\ thrown = NoError
        /\ instance["apiKey"] = FirstNonEmpty(KeySources)

C1_Witness ==
    /\ pc = "constructed"
    /\ KeySources = <<Str(""), Str("key-alias"), Str("key-env")>>
    /\ instance["apiKey"] = Str("key-alias")

\* The message the test at aibadgr.ts:409 expects
ExpectedKeyNotFoundMessage ==
    "AI Badgr API key not found. Please set the AIBADGR_API_KEY environment variable or pass the key into \"apiKey\" field."

\* C2: when no source is non-empty, construction fails, no instance reaches
\* the wrapped constructor, and the error message is the expected one.
C2_MissingKeyMessage ==
    (pc # "new" /\ \A i \in 1..3 : ~NonEmpty(KeySources[i])) =>
        /\ pc = "failed"
        /\ instance = EmptyObject
        /\ thrown = ExpectedKeyNotFoundMessage

\* C3: the payload delegated to the wrapped client has none of the four
\* unsupported fields and every other field exactly as on entry; the options
\* are passed through and the result is the wrapped client's result.
C3_SanitizedDelegation ==
    \A i \in 1..Len(calls) :
        LET c == calls[i] IN
        /\ DOMAIN c.delegated \cap UnsupportedFields = {}
        /\ DOMAIN c.delegated = DOMAIN c.entry \ UnsupportedFields
        /\ \A k \in DOMAIN c.delegated : c.delegated[k] = c.entry[k]
        /\ c.delegatedOptions = c.options
        /\ c.result = c.wrapped

C3_Witness ==
    \E i \in 1..Len(calls) :
        /\ UnsupportedFields \subseteq DOMAIN calls[i].entry
        /\ calls[i].entry["stream"] = Bool("true")
        /\ DOMAIN calls[i].delegated = {"messages", "model", "temperature", "tools", "stream"}
        /\ calls[i].result = [kind |-> "fulfilled", v |-> "response"]

C5_EffectiveModel ==
    pc = "constructed" =>
        instance["model"] =
            IF Truthy(Get(fields, "model")) THEN fields["model"] ELSE Str("premium")

TierNames == {"basic", "normal", "premium"}
PowerUserNames == {"phi-3-mini", "mistral-7b", "llama3-8b-instruct"}

\* The token limits the documentation gives for each name
DocumentedLimits(name) ==
    CASE name \in {"basic", "phi-3-mini"} -> <<8192, 4096>>
      [] name \in {"normal", "mistral-7b"} -> <<16384, 8192>>
      [] name \in {"premium", "llama3-8b-instruct"} -> <<32768, 16384>>

\* C6: model.profile is the table entry of the configured model name: the
\* documented limits and toolCalling for the six known names, the empty
\* record for any other name.
C6_ProfileLookup ==
    profile.read =>
        LET name == instance["model"].v IN
        IF name \in TierNames \cup PowerUserNames
        THEN /\ profile.value.maxInputTokens = DocumentedLimits(name)[1]
             /\ profile.value.maxOutputTokens = DocumentedLimits(name)[2]
             /\ profile.value.toolCalling = TRUE
        ELSE profile.value = EmptyObject

C6_Witness ==
    /\ profile.read
    /\ instance["model"] = Str("mistral-7b")
    /\ profile.value.maxInputTokens = 16384
    /\ profile.value.maxOutputTokens = 8192

CapabilityFlags ==
    {"imageInputs", "audioInputs", "pdfInputs", "videoInputs", "reasoningOutput",
     "imageOutputs", "audioOutputs", "videoOutputs", "toolCalling", "structuredOutput"}

\* C7: in the table, at every moment, each power-user name has the whole
\* record of its tier, the tiers' limits are 8192/4096 < 16384/8192 <
\* 32768/16384, and every entry has toolCalling true and every other
\* capability flag false.
C7_ProfileTable ==
    /\ DOMAIN profiles = TierNames \cup PowerUserNames
    /\ profiles["phi-3-mini"] = profiles["basic"]
    /\ profiles["mistral-7b"] = profiles["normal"]
    /\ profiles["llama3-8b-instruct"] = profiles["premium"]
    /\ \A n \in DOMAIN profiles :
        /\ DOMAIN profiles[n] = CapabilityFlags \cup {"maxInputTokens", "maxOutputTokens"}
        /\ <<profiles[n].maxInputTokens, profiles[n].maxOutputTokens>> = DocumentedLimits(n)
        /\ \A f \in CapabilityFlags : profiles[n][f] = (f = "toolCalling")
    /\ profiles["basic"].maxInputTokens < profiles["normal"].maxInputTokens
    /\ profiles["normal"].maxInputTokens < profiles["premium"].maxInputTokens
    /\ profiles["basic"].maxOutputTokens < profiles["normal"].maxOutputTokens
    /\ profiles["normal"].maxOutputTokens < profiles["premium"].maxOutputTokens

C7_Witness ==
    /\ profile.read
    /\ instance["model"] = Str("phi-3-mini")
    /\ profile.value = profiles["basic"]

\* C8: the secret-field declaration of a constructed client is exactly
\* {apiKey: "AIBADGR_API_KEY"}.
C8_SecretsDeclaration ==
    pc = "constructed" => lc_secrets = [apiKey |-> "AIBADGR_API_KEY"]

\* C9: the base URL handed to the wrapped client is the caller's override
\* (configuration.baseURL, else AIBADGR_BASE_URL) when there is one and the
\* fixed URL otherwise.
C9_BaseURLOverride ==
    pc = "constructed" =>
        instance["configuration"] =
            IF "configuration" \in DOMAIN fields THEN fields["configuration"]
            ELSE IF "AIBADGR_BASE_URL" \in DOMAIN env
                 THEN ClientOptions(env["AIBADGR_BASE_URL"].v)
                 ELSE ClientOptions(DefaultBaseURL)

\* C10 as stated: no step of any interleaving of completion calls changes a
\* request object as its caller holds it, nor the client's configuration.
C10_RequestUntouched ==
    [][heap' = heap /\ instance' = instance /\ env' = env]_vars

\* C10 amended: a step changes no state outside the call except that the
\* request object passed to a new call loses the four unsupported fields, in
\* place; its other fields, every other request object and the client's
\* configuration are unchanged.
C10_OnlyUnsupportedRemoved ==
    [][/\ instance' = instance
       /\ env' = env
       /\ profiles' = profiles
       /\ \A r \in RequestIds :
            heap'[r] =
                IF Len(calls') > Len(calls) /\ calls'[Len(calls')].request = r
                THEN Omit(heap[r], UnsupportedFields)
                ELSE heap[r]]_vars

C10_Witness ==
    \E i, j \in 1..Len(calls) :
        /\ i < j
        /\ calls[i].request = calls[j].request
        /\ calls[i].wrapped = Pending
        /\ UnsupportedFields \subseteq DOMAIN calls[i].entry
        /\ DOMAIN heap[calls[i].request] \cap UnsupportedFields = {}
        /\ calls[j].entry = calls[i].delegated

====
